---- MODULE Spec2Model ----
(***************************************************************************)
(* Model of VeniceToolParser (PROTOTYPE_TOOL_PARSER.py): the extraction of *)
(* tool calls from model-generated text by three regular-expression        *)
(* strategies tried in cascade, and the cue-word heuristic that guards the *)
(* weakest strategy.                                                       *)
(*                                                                         *)
(* A text is a sequence of lexemes.  Each lexeme stands for one fixed      *)
(* string; the regular expressions, json.loads and the substring tests of  *)
(* the source are computed on the lexeme sequence exactly as the source    *)
(* computes them on the concatenated string.  The lexemes are chosen so    *)
(* that no literal of a pattern, no cue word and no valid JSON text        *)
(* straddles two lexemes.                                                  *)
(*                                                                         *)
(*   START    TOOL_CALL_START                                              *)
(*   END      TOOL_CALL_END                                                *)
(*   NL       a newline                                                    *)
(*   SP       a space                                                      *)
(*   FENCE    ```                                                          *)
(*   TAG      json                                                         *)
(*   USING    using                 (a call indicator)                     *)
(*   COULD    could                 (a discussion indicator)               *)
(*   EXECUTED EXECUTED              (holds the call indicator execute)     *)
(*   PAD      PadLen dots                                                  *)
(*   P_A      {"function": "alpha", "params": {"k": 1}}                    *)
(*   P_B      {"function": "beta", "params": {"k": 2}}                     *)
(*   P_NOKEY  {"params": {"k": 1}}                                         *)
(*   P_TYPES  {"function": "", "params": 0}                                *)
(*   P_NUM    0                                                            *)
(*   P_TRUNC  {"function": "alpha"                                         *)
(*   P_INBAD  {"function": "alpha", "params": {k}}                         *)
(*   P_RUN    {"function": "run", "params": {"k": 3}}                      *)
(*   P_EXTRA  {"function": "alpha", "params": {"k": 1}, "id": 7}           *)
(***************************************************************************)
EXTENDS Integers, Sequences, FiniteSets, TLC

VARIABLES text, pc, tool_calls,   \* one call of extract_tool_calls
          frames, heap,           \* several calls of it, on shared parsers
          fs, dirs,               \* the files and directories of an installation
          script, step,           \* the script at work on it, and its next call
          history,                \* the scripts that have ended, in order
          original, at_start,     \* the files before any script, and before this one
          model_capabilities_cache,   \* VeniceClient._model_capabilities_cache
          request_data,           \* the request last given to the client
          none_filtered,          \* filtered_data after _filter_none_values
          filtered_data,          \* filtered_data after _filter_tools_if_unsupported
          endpoint                \* the API the request was sent to

vars == <<text, pc, tool_calls, frames, heap,
          fs, dirs, script, step, history, original, at_start,
          model_capabilities_cache, request_data, none_filtered, filtered_data, endpoint>>

\* The client and the request it shapes.
client_vars == <<model_capabilities_cache, request_data, none_filtered, filtered_data, endpoint>>

\* No client is involved.
ClientUnused ==
    /\ model_capabilities_cache = <<>>
    /\ request_data = <<>>
    /\ none_filtered = <<>>
    /\ filtered_data = <<>>
    /\ endpoint = "unused"

\* The installation and the scripts run on it.
install_vars == <<fs, dirs, script, step, history, original, at_start>>

\* No installation is involved.
InstallUnused ==
    /\ fs = <<>>
    /\ dirs = {}
    /\ script = "unused"
    /\ step = "unused"
    /\ history = <<>>
    /\ original = <<>>
    /\ at_start = <<>>

\* The variables that a single call of extract_tool_calls leaves alone.
outside_call == <<frames, heap, install_vars, client_vars>>

\* The variables that the interleaved calls leave alone.
outside_calls == <<text, pc, tool_calls, install_vars, client_vars>>

(***************************************************************************)
(* Bounds of the input space.                                              *)
(***************************************************************************)
MaxSegs == 3
PadLen == 100
MaxCallSegs == 1
MaxRuns == 3
MaxDeviations == 2

(***************************************************************************)
(* Lexemes.                                                                *)
(***************************************************************************)
Lexemes ==
    {"START", "END", "NL", "SP", "FENCE", "TAG", "USING", "COULD", "PAD",
     "P_A", "P_B", "P_NOKEY", "P_TYPES", "P_NUM", "P_TRUNC", "P_INBAD", "P_RUN",
     "EXECUTED", "P_EXTRA"}

\* len(lexeme), in characters.
LexLen(t) ==
    CASE t = "START"   -> 15
      [] t = "END"     -> 13
      [] t = "NL"      -> 1
      [] t = "SP"      -> 1
      [] t = "FENCE"   -> 3
      [] t = "TAG"     -> 4
      [] t = "USING"   -> 5
      [] t = "COULD"   -> 5
      [] t = "PAD"     -> PadLen
      [] t = "P_A"     -> 41
      [] t = "P_B"     -> 40
      [] t = "P_NOKEY" -> 20
      [] t = "P_TYPES" -> 29
      [] t = "P_NUM"   -> 1
      [] t = "P_TRUNC" -> 20
      [] t = "P_INBAD" -> 36
      [] t = "P_RUN"   -> 39
      [] t = "EXECUTED" -> 8
      [] t = "P_EXTRA" -> 50

\* \s of the patterns and the characters str.strip() removes.
IsSpace(t) == t \in {"NL", "SP"}

\* The lexeme begins with the character { .
StartsWithBrace(t) ==
    t \in {"P_A", "P_B", "P_NOKEY", "P_TYPES", "P_TRUNC", "P_INBAD", "P_RUN", "P_EXTRA"}

\* The lexeme ends with the character } .
EndsWithBrace(t) ==
    t \in {"P_A", "P_B", "P_NOKEY", "P_TYPES", "P_INBAD", "P_RUN", "P_EXTRA"}

RECURSIVE CharLen(_)
\* len(text)
CharLen(s) == IF s = <<>> THEN 0 ELSE LexLen(Head(s)) + CharLen(Tail(s))

\* The character offset at which lexeme i of s begins.
Offset(s, i) == CharLen(SubSeq(s, 1, i - 1))

(***************************************************************************)
(* JSON values as json.loads builds them.  Each type keeps its payload in  *)
(* a field of its own, so that values of different types are unequal.      *)
(***************************************************************************)
JObj(m) == [type |-> "object", members |-> m]
JStr(c) == [type |-> "string", chars |-> c]
JNum(n) == [type |-> "number", num |-> n]

\* What json.loads raises on a text that is not JSON.
JSONDecodeError == [type |-> "JSONDecodeError"]

\* json.loads of the string of one lexeme.
LoadLexeme(t) ==
    CASE t = "P_A"     -> JObj([function |-> JStr("alpha"), params |-> JObj([k |-> JNum(1)])])
      [] t = "P_B"     -> JObj([function |-> JStr("beta"), params |-> JObj([k |-> JNum(2)])])
      [] t = "P_NOKEY" -> JObj([params |-> JObj([k |-> JNum(1)])])
      [] t = "P_TYPES" -> JObj([function |-> JStr(""), params |-> JNum(0)])
      [] t = "P_NUM"   -> JNum(0)
      [] t = "P_RUN"   -> JObj([function |-> JStr("run"), params |-> JObj([k |-> JNum(3)])])
      [] t = "P_EXTRA" -> JObj([function |-> JStr("alpha"), params |-> JObj([k |-> JNum(1)]),
                                id |-> JNum(7)])
      [] OTHER         -> JSONDecodeError

RECURSIVE LStrip(_)
LStrip(s) == IF s # <<>> /\ IsSpace(Head(s)) THEN LStrip(Tail(s)) ELSE s

RECURSIVE RStrip(_)
RStrip(s) ==
    IF s # <<>> /\ IsSpace(s[Len(s)]) THEN RStrip(SubSeq(s, 1, Len(s) - 1)) ELSE s

\* str.strip()
Strip(s) == RStrip(LStrip(s))

\* json.loads of an already stripped string: one lexeme is looked up; the
\* empty string and every string of several lexemes is not a JSON text.
JsonLoads(s) == IF Len(s) = 1 THEN LoadLexeme(s[1]) ELSE JSONDecodeError

\* Faulty variant of Contains: the key is found only in a dict with no keys
\* besides function and params.
ContainsInExactPayload(key, data) ==
    CASE data.type = "object" ->
             IF key \in DOMAIN data.members /\ DOMAIN data.members \subseteq {"function", "params"}
             THEN "True" ELSE "False"
      [] OTHER                -> "TypeError"

\* `key in data`: membership among the keys of a dict; a TypeError on an
\* int, a bool or None.
Contains(key, data) ==
    CASE data.type = "object" -> IF key \in DOMAIN data.members THEN "True" ELSE "False"
      [] OTHER                -> "TypeError"

(***************************************************************************)
(* ToolCall.  The confidence is kept in tenths.                            *)
(***************************************************************************)
ToolCall(name, params, confidence) ==
    [name |-> name, params |-> params, confidence |-> confidence]

MARKER_CONFIDENCE == 10
CODE_BLOCK_CONFIDENCE == 8
INLINE_CONFIDENCE == 6

(***************************************************************************)
(* re.finditer.  A match is [from, to, g1from, g1to]: the lexemes it       *)
(* spans and the lexemes of its group 1.                                   *)
(***************************************************************************)
NoMatch == [from |-> 0, to |-> 0, g1from |-> 0, g1to |-> 0]

Min(S) == CHOOSE x \in S : \A y \in S : x <= y
Max(S) == CHOOSE x \in S : \A y \in S : x >= y

\* The last lexeme of the run of white space that begins at p (p - 1 when
\* lexeme p is not white space).
SpaceRunEnd(s, p) ==
    Max({p - 1} \cup {r \in p..Len(s) : \A q \in p..r : IsSpace(s[q])})

\* Faulty variant of MarkerMatchAt: the group is greedy, (.*) for (.*?), and
\* runs to the last end token of the text.
MarkerMatchAtGreedy(s, i) ==
    IF s[i] # "START" THEN NoMatch
    ELSE LET Closes(k) == k + 1 <= Len(s) /\ s[k] = "NL" /\ s[k + 1] = "END"
             Opens == {j \in (i + 1)..SpaceRunEnd(s, i + 1) :
                          /\ s[j] = "NL"
                          /\ \E k \in (j + 1)..Len(s) : Closes(k)}
         IN IF Opens = {} THEN NoMatch
            ELSE LET j == Max(Opens)
                     k == Max({q \in (j + 1)..Len(s) : Closes(q)})
                 IN [from |-> i, to |-> k + 1, g1from |-> j + 1, g1to |-> k - 1]

\* MARKER_PATTERN  TOOL_CALL_START\s*\n(.*?)\nTOOL_CALL_END  with DOTALL,
\* tried at lexeme i.  \s* is greedy and gives back down to the last
\* newline after which the rest matches; (.*?) stops at the first newline
\* that TOOL_CALL_END follows.
MarkerMatchAt(s, i) ==
    IF s[i] # "START" THEN NoMatch
    ELSE LET Closes(k) == k + 1 <= Len(s) /\ s[k] = "NL" /\ s[k + 1] = "END"
             Opens == {j \in (i + 1)..SpaceRunEnd(s, i + 1) :
                          /\ s[j] = "NL"
                          /\ \E k \in (j + 1)..Len(s) : Closes(k)}
         IN IF Opens = {} THEN NoMatch
            ELSE LET j == Max(Opens)
                     k == Min({q \in (j + 1)..Len(s) : Closes(q)})
                 IN [from |-> i, to |-> k + 1, g1from |-> j + 1, g1to |-> k - 1]

\* CODE_BLOCK_PATTERN  ```(?:json|tool_call)?\s*\n(\{.*?\})\s*\n```  with
\* DOTALL, tried at lexeme i with the optional tag taken (p = i + 2) or not
\* (p = i + 1).  The group begins right after a newline with { and ends at
\* the first } that white space ending in a newline and a fence follow.
CodeBlockMatchFrom(s, i, p) ==
    LET r == SpaceRunEnd(s, p)
        b == r + 1
        Closes(e) ==
            LET u == SpaceRunEnd(s, e + 1)
            IN /\ EndsWithBrace(s[e])
               /\ u >= e + 1
               /\ s[u] = "NL"
               /\ u + 1 <= Len(s)
               /\ s[u + 1] = "FENCE"
    IN IF /\ r >= p
          /\ s[r] = "NL"
          /\ b <= Len(s)
          /\ StartsWithBrace(s[b])
          /\ \E e \in b..Len(s) : Closes(e)
       THEN LET e == Min({q \in b..Len(s) : Closes(q)})
            IN [from |-> i, to |-> SpaceRunEnd(s, e + 1) + 1, g1from |-> b, g1to |-> e]
       ELSE NoMatch

CodeBlockMatchAt(s, i) ==
    IF s[i] # "FENCE" THEN NoMatch
    ELSE LET tagged == IF i + 1 <= Len(s) /\ s[i + 1] = "TAG"
                       THEN CodeBlockMatchFrom(s, i, i + 2)
                       ELSE NoMatch
         IN IF tagged # NoMatch THEN tagged ELSE CodeBlockMatchFrom(s, i, i + 1)

\* The lexemes INLINE_JSON_PATTERN matches, each as a whole.
InlineLexemes == {"P_A", "P_B", "P_INBAD", "P_RUN"}

\* INLINE_JSON_PATTERN  \{"function":\s*"([^"]+)",\s*"params":\s*(\{[^}]+\})\}
\* tried at lexeme i.
InlineMatchAt(s, i) ==
    IF s[i] \in InlineLexemes
    THEN [from |-> i, to |-> i, g1from |-> i, g1to |-> i]
    ELSE NoMatch

\* match.group(1) of the inline pattern: the function name.
InlineGroup1(t) ==
    CASE t = "P_B"   -> JStr("beta")
      [] t = "P_RUN" -> JStr("run")
      [] OTHER       -> JStr("alpha")

\* json.loads(match.group(2)) of the inline pattern: the params object.
InlineLoadGroup2(t) ==
    CASE t = "P_A"   -> JObj([k |-> JNum(1)])
      [] t = "P_B"   -> JObj([k |-> JNum(2)])
      [] t = "P_RUN" -> JObj([k |-> JNum(3)])
      [] OTHER       -> JSONDecodeError

RECURSIVE MarkerFindIter(_, _)
\* re.finditer(MARKER_PATTERN, text, re.DOTALL), scanning from lexeme i.
MarkerFindIter(s, i) ==
    IF i > Len(s) THEN <<>>
    ELSE LET m == MarkerMatchAt(s, i)
         IN IF m # NoMatch THEN <<m>> \o MarkerFindIter(s, m.to + 1)
            ELSE MarkerFindIter(s, i + 1)

RECURSIVE CodeBlockFindIter(_, _)
\* re.finditer(CODE_BLOCK_PATTERN, text, re.DOTALL), scanning from lexeme i.
CodeBlockFindIter(s, i) ==
    IF i > Len(s) THEN <<>>
    ELSE LET m == CodeBlockMatchAt(s, i)
         IN IF m # NoMatch THEN <<m>> \o CodeBlockFindIter(s, m.to + 1)
            ELSE CodeBlockFindIter(s, i + 1)

RECURSIVE InlineFindIter(_, _)
\* re.finditer(INLINE_JSON_PATTERN, text), scanning from lexeme i.
InlineFindIter(s, i) ==
    IF i > Len(s) THEN <<>>
    ELSE LET m == InlineMatchAt(s, i)
         IN IF m # NoMatch THEN <<m>> \o InlineFindIter(s, m.to + 1)
            ELSE InlineFindIter(s, i + 1)

(***************************************************************************)
(* The three strategies.  A strategy ends with [raised, calls]: the list   *)
(* it returns, or an exception that no handler of the strategy catches.    *)
(***************************************************************************)
Returns(calls) == [raised |-> FALSE, calls |-> calls]
RaisesTypeError == [raised |-> TRUE, calls |-> <<>>]

\* Faulty variant of MarkerToolCall: the whole payload is passed as params.
MarkerToolCallWholePayload(data) ==
    ToolCall(data.members.function, data, MARKER_CONFIDENCE)

\* ToolCall(name=data["function"], params=data["params"], confidence=1.0)
MarkerToolCall(data) ==
    ToolCall(data.members.function, data.members.params, MARKER_CONFIDENCE)

RECURSIVE MarkerLoop(_, _, _)
\* The for loop of _extract_with_markers over the matches ms.
MarkerLoop(s, ms, acc) ==
    IF ms = <<>> THEN Returns(acc)
    ELSE LET match == Head(ms)
             json_str == Strip(SubSeq(s, match.g1from, match.g1to))
             data == JsonLoads(json_str)
         IN IF data.type = "JSONDecodeError" THEN MarkerLoop(s, Tail(ms), acc)
            ELSE IF Contains("function", data) = "TypeError" THEN RaisesTypeError
            ELSE IF Contains("function", data) = "False" THEN MarkerLoop(s, Tail(ms), acc)
            ELSE IF Contains("params", data) = "TypeError" THEN RaisesTypeError
            ELSE IF Contains("params", data) = "False" THEN MarkerLoop(s, Tail(ms), acc)
            ELSE MarkerLoop(s, Tail(ms), Append(acc, MarkerToolCall(data)))

\* _extract_with_markers(text)
ExtractWithMarkers(s) == MarkerLoop(s, MarkerFindIter(s, 1), <<>>)

\* Faulty variant of CodeBlockToolCall: the confidence of the marker
\* strategy, as left by copying its loop.
CodeBlockToolCallCopied(data) ==
    ToolCall(data.members.function, data.members.params, MARKER_CONFIDENCE)

\* ToolCall(name=data["function"], params=data["params"], confidence=0.8)
CodeBlockToolCall(data) ==
    ToolCall(data.members.function, data.members.params, CODE_BLOCK_CONFIDENCE)

RECURSIVE CodeBlockLoop(_, _, _)
\* The for loop of _extract_from_code_blocks over the matches ms.
CodeBlockLoop(s, ms, acc) ==
    IF ms = <<>> THEN Returns(acc)
    ELSE LET match == Head(ms)
             json_str == Strip(SubSeq(s, match.g1from, match.g1to))
             data == JsonLoads(json_str)
         IN IF data.type = "JSONDecodeError" THEN CodeBlockLoop(s, Tail(ms), acc)
            ELSE IF Contains("function", data) = "TypeError" THEN RaisesTypeError
            ELSE IF Contains("function", data) = "False" THEN CodeBlockLoop(s, Tail(ms), acc)
            ELSE IF Contains("params", data) = "TypeError" THEN RaisesTypeError
            ELSE IF Contains("params", data) = "False" THEN CodeBlockLoop(s, Tail(ms), acc)
            ELSE CodeBlockLoop(s, Tail(ms), Append(acc, CodeBlockToolCall(data)))

\* _extract_from_code_blocks(text)
ExtractFromCodeBlocks(s) == CodeBlockLoop(s, CodeBlockFindIter(s, 1), <<>>)

(***************************************************************************)
(* _is_likely_tool_call.                                                   *)
(***************************************************************************)
CONTEXT_RADIUS == 100

call_indicators == {"using", "calling", "execute", "run", "invoke"}
discussion_indicators == {"could", "might", "would", "should", "example"}

\* len(word) of an indicator.
WordLen(w) ==
    CASE w \in {"run"}                                          -> 3
      [] w \in {"using", "could", "might", "would"}             -> 5
      [] w \in {"invoke", "should"}                             -> 6
      [] w \in {"calling", "execute", "example"}                -> 7

\* The indicators that occur in the lower-cased string of a lexeme, each
\* with the offset of the occurrence in the lexeme.
Occurrences(t) ==
    CASE t = "USING" -> {[word |-> "using", at |-> 0]}
      [] t = "COULD" -> {[word |-> "could", at |-> 0]}
      [] t = "P_RUN" -> {[word |-> "run", at |-> 14]}
      [] t = "EXECUTED" -> {[word |-> "execute", at |-> 0]}
      [] OTHER       -> {}

\* `word in context`, context being text[start:end].lower().
InContext(w, s, start, end) ==
    \E i \in 1..Len(s) : \E o \in Occurrences(s[i]) :
        /\ o.word = w
        /\ Offset(s, i) + o.at >= start
        /\ Offset(s, i) + o.at + WordLen(w) <= end

ContextStart(position) == IF position - CONTEXT_RADIUS > 0 THEN position - CONTEXT_RADIUS ELSE 0

\* Faulty variant of ContextEnd: the context runs to the end of the text.
ContextEndOfText(s, position) == CharLen(s)

ContextEnd(s, position) ==
    IF position + CONTEXT_RADIUS < CharLen(s) THEN position + CONTEXT_RADIUS ELSE CharLen(s)

\* Faulty variant of call_score: every occurrence of an indicator counts.
call_score_per_occurrence(s, position) ==
    Cardinality({io \in {<<i, o>> : i \in 1..Len(s), o \in UNION {Occurrences(s[j]) : j \in 1..Len(s)}} :
                    /\ io[2] \in Occurrences(s[io[1]])
                    /\ io[2].word \in call_indicators
                    /\ Offset(s, io[1]) + io[2].at >= ContextStart(position)
                    /\ Offset(s, io[1]) + io[2].at + WordLen(io[2].word) <= ContextEnd(s, position)})

call_score(s, position) ==
    Cardinality({w \in call_indicators :
                    InContext(w, s, ContextStart(position), ContextEnd(s, position))})

discussion_score(s, position) ==
    Cardinality({w \in discussion_indicators :
                    InContext(w, s, ContextStart(position), ContextEnd(s, position))})

\* Faulty variant of IsLikelyToolCall: a tie counts as a call.
IsLikelyToolCallOnTie(s, position) == call_score(s, position) >= discussion_score(s, position)

\* _is_likely_tool_call(text, position)
IsLikelyToolCall(s, position) == call_score(s, position) > discussion_score(s, position)

\* ToolCall(name=function_name, params=params, confidence=0.6)
InlineToolCall(function_name, params) == ToolCall(function_name, params, INLINE_CONFIDENCE)

RECURSIVE InlineLoop(_, _, _)
\* The for loop of _extract_inline_json over the matches ms.
InlineLoop(s, ms, acc) ==
    IF ms = <<>> THEN Returns(acc)
    ELSE LET match == Head(ms)
             function_name == InlineGroup1(s[match.g1from])
             params == InlineLoadGroup2(s[match.g1from])
         IN IF params.type = "JSONDecodeError" THEN InlineLoop(s, Tail(ms), acc)
            ELSE IF IsLikelyToolCall(s, Offset(s, match.from))
            THEN InlineLoop(s, Tail(ms), Append(acc, InlineToolCall(function_name, params)))
            ELSE InlineLoop(s, Tail(ms), acc)

\* _extract_inline_json(text)
ExtractInlineJson(s) == InlineLoop(s, InlineFindIter(s, 1), <<>>)

(***************************************************************************)
(* The input texts: up to MaxSegs segments, each a marker block (one of    *)
(* them with no newline after its end token), a fenced block, an inline    *)
(* fragment, a cue word, padding or a lone start marker.                   *)
(***************************************************************************)
MarkerBlock(p) == <<"START", "NL", p, "NL", "END", "NL">>
OpenMarkerBlock(p) == <<"START", "NL", p, "NL", "END">>
FencedBlock(p) == <<"FENCE", "NL", p, "NL", "FENCE", "NL">>
TaggedBlock(p) == <<"FENCE", "TAG", "NL", p, "NL", "FENCE", "NL">>

Segments ==
    {MarkerBlock(p) : p \in {"P_A", "P_B", "P_NOKEY", "P_TYPES", "P_NUM", "P_TRUNC", "P_EXTRA"}}
    \cup {OpenMarkerBlock("P_B")}
    \cup {FencedBlock("P_A"), TaggedBlock("P_B"), FencedBlock("P_TRUNC"), FencedBlock("P_INBAD"),
          FencedBlock("P_EXTRA")}
    \cup {<<"P_A">>, <<"P_INBAD">>, <<"P_RUN">>, <<"USING", "SP">>, <<"COULD", "SP">>, <<"PAD">>,
          <<"START", "NL">>, <<"EXECUTED", "SP">>}

RECURSIVE Flatten(_)
Flatten(ss) == IF ss = <<>> THEN <<>> ELSE Head(ss) \o Flatten(Tail(ss))

Texts == {Flatten(ss) : ss \in UNION {[1..n -> Segments] : n \in 0..MaxSegs}}

(***************************************************************************)
(* extract_tool_calls(text), one action per statement.                     *)
(***************************************************************************)
Init ==
    /\ text \in Texts
    /\ pc = "start"
    /\ tool_calls = <<>>
    /\ frames = <<>>
    /\ heap = <<>>
    /\ InstallUnused
    /\ ClientUnused

\* tool_calls.extend(self._extract_with_markers(text))
TryMarkers ==
    /\ pc = "start"
    /\ LET r == ExtractWithMarkers(text)
       IN IF r.raised
          THEN pc' = "raised" /\ UNCHANGED tool_calls
          ELSE pc' = "markers_done" /\ tool_calls' = tool_calls \o r.calls
    /\ UNCHANGED <<text, outside_call>>

\* if not tool_calls: tool_calls.extend(self._extract_from_code_blocks(text))
TryCodeBlocks ==
    /\ pc = "markers_done"
    /\ IF tool_calls = <<>>
       THEN LET r == ExtractFromCodeBlocks(text)
            IN IF r.raised
               THEN pc' = "raised" /\ UNCHANGED tool_calls
               ELSE pc' = "code_blocks_done" /\ tool_calls' = tool_calls \o r.calls
       ELSE pc' = "code_blocks_done" /\ UNCHANGED tool_calls
    /\ UNCHANGED <<text, outside_call>>

\* if not tool_calls: tool_calls.extend(self._extract_inline_json(text))
TryInlineJson ==
    /\ pc = "code_blocks_done"
    /\ IF tool_calls = <<>>
       THEN LET r == ExtractInlineJson(text)
            IN IF r.raised
               THEN pc' = "raised" /\ UNCHANGED tool_calls
               ELSE pc' = "inline_done" /\ tool_calls' = tool_calls \o r.calls
       ELSE pc' = "inline_done" /\ UNCHANGED tool_calls
    /\ UNCHANGED <<text, outside_call>>

\* return tool_calls
Return ==
    /\ pc = "inline_done"
    /\ pc' = "returned"
    /\ UNCHANGED <<text, tool_calls, outside_call>>

Next == TryMarkers \/ TryCodeBlocks \/ TryInlineJson \/ Return

Spec == Init /\ [][Next]_vars

(***************************************************************************)
(* Several calls of extract_tool_calls, their statements interleaved.  The *)
(* class has no __init__ and no method assigns to self: a parser has no    *)
(* attributes of its own, and all a call works on is its frame (self,      *)
(* text, the local tool_calls) and the list object tool_calls refers to.   *)
(* Two calls are made on the same text, a third on any text; each is made  *)
(* on one of two parsers.                                                  *)
(***************************************************************************)
CallIds == {"first", "second", "other"}
Parsers == {"parser1", "parser2"}

CallSegments ==
    {MarkerBlock("P_A"), MarkerBlock("P_NUM"), TaggedBlock("P_B"), <<"P_RUN">>}

CallTexts == {Flatten(ss) : ss \in UNION {[1..n -> CallSegments] : n \in 0..MaxCallSegs}}

\* The identities of the list objects.
ListIds == CallIds \cup Parsers

\* Faulty variant of NewList: the list is an attribute of the parser,
\* shared by the calls made on it.
NewListOfParser(c) == frames[c].self

\* tool_calls = []  creates a list object of its own for call c.
NewList(c) == c

CallInit ==
    /\ \E t \in CallTexts : \E u \in CallTexts : \E p \in [CallIds -> Parsers] :
          frames = [c \in CallIds |->
                       [self |-> p[c],
                        text |-> IF c = "other" THEN u ELSE t,
                        pc |-> "called",
                        tool_calls |-> "None",
                        result |-> <<>>]]
    /\ heap = [l \in ListIds |-> <<>>]
    /\ text = <<>>
    /\ pc = "unused"
    /\ tool_calls = <<>>
    /\ InstallUnused
    /\ ClientUnused

\* The list call c extends.
ListOf(c) == heap[frames[c].tool_calls]

\* tool_calls = []
CallEnter(c) ==
    /\ frames[c].pc = "called"
    /\ frames' = [frames EXCEPT ![c].pc = "start", ![c].tool_calls = NewList(c)]
    /\ heap' = [heap EXCEPT ![NewList(c)] = <<>>]
    /\ UNCHANGED outside_calls

\* tool_calls.extend(self._extract_with_markers(text))
CallTryMarkers(c) ==
    /\ frames[c].pc = "start"
    /\ LET r == ExtractWithMarkers(frames[c].text)
       IN IF r.raised
          THEN frames' = [frames EXCEPT ![c].pc = "raised"] /\ UNCHANGED heap
          ELSE /\ frames' = [frames EXCEPT ![c].pc = "markers_done"]
               /\ heap' = [heap EXCEPT ![frames[c].tool_calls] = @ \o r.calls]
    /\ UNCHANGED outside_calls

\* if not tool_calls: tool_calls.extend(self._extract_from_code_blocks(text))
CallTryCodeBlocks(c) ==
    /\ frames[c].pc = "markers_done"
    /\ IF ListOf(c) = <<>>
       THEN LET r == ExtractFromCodeBlocks(frames[c].text)
            IN IF r.raised
               THEN frames' = [frames EXCEPT ![c].pc = "raised"] /\ UNCHANGED heap
               ELSE /\ frames' = [frames EXCEPT ![c].pc = "code_blocks_done"]
                    /\ heap' = [heap EXCEPT ![frames[c].tool_calls] = @ \o r.calls]
       ELSE frames' = [frames EXCEPT ![c].pc = "code_blocks_done"] /\ UNCHANGED heap
    /\ UNCHANGED outside_calls

\* if not tool_calls: tool_calls.extend(self._extract_inline_json(text))
CallTryInlineJson(c) ==
    /\ frames[c].pc = "code_blocks_done"
    /\ IF ListOf(c) = <<>>
       THEN LET r == ExtractInlineJson(frames[c].text)
            IN IF r.raised
               THEN frames' = [frames EXCEPT ![c].pc = "raised"] /\ UNCHANGED heap
               ELSE /\ frames' = [frames EXCEPT ![c].pc = "inline_done"]
                    /\ heap' = [heap EXCEPT ![frames[c].tool_calls] = @ \o r.calls]
       ELSE frames' = [frames EXCEPT ![c].pc = "inline_done"] /\ UNCHANGED heap
    /\ UNCHANGED outside_calls

\* return tool_calls : the caller receives the list as it is now.
CallReturn(c) ==
    /\ frames[c].pc = "inline_done"
    /\ frames' = [frames EXCEPT ![c].pc = "returned", ![c].result = ListOf(c)]
    /\ UNCHANGED <<heap, outside_calls>>

CallNext ==
    \E c \in CallIds :
        \/ CallEnter(c)
        \/ CallTryMarkers(c)
        \/ CallTryCodeBlocks(c)
        \/ CallTryInlineJson(c)
        \/ CallReturn(c)

CallSpec == CallInit /\ [][CallNext]_vars

(***************************************************************************)
(* patch.py and unpatch.py, run on an installation.  A file is a sequence  *)
(* of lines, each line a lexeme that stands for one fixed string followed  *)
(* by a newline; the searches and substitutions of patch.py are computed   *)
(* on the lines as the source computes them on the string.                 *)
(*                                                                         *)
(*   BLANK            (an empty line)                                      *)
(*   E_IMPORT         from enum import Enum                                *)
(*   E_CLASS          class ProviderType(str, Enum):                       *)
(*   E_OPENAI             openai = "openai"                                *)
(*   E_GROQ               groq = "groq"                                    *)
(*   E_VENICE             venice = "venice"                                *)
(*   C_IMPORT         from typing import Literal                           *)
(*   C_LITERAL            model_endpoint_type: Literal["openai", "groq",   *)
(*                    "together"]                      (on one line)       *)
(*   C_LITERAL_V      the same with "groq", "venice",                      *)
(*   S_CLASS          class ModelSettings(BaseSettings):                   *)
(*   S_COMMENT            # OpenAI                                         *)
(*   S_FIELD              openai_api_key: Optional[str] = None             *)
(*   S_VENICE             # Venice                                         *)
(*   S_VENICE_KEY         venice_api_key: Optional[str] = None             *)
(*   S_VENICE_URL         venice_base_url: str = "https://api.venice.ai/api/v1" *)
(*   I_GROQ           from letta.schemas.providers.groq import GroqProvider *)
(*   I_VENICE         from letta.schemas.providers.venice import VeniceProvider *)
(*   L_IMPORT_GROQ    from letta.llm_api.groq_client import GroqClient     *)
(*   L_IMPORT_VENICE  from letta.llm_api.venice_client import VeniceClient *)
(*   L_ELIF_GROQ          elif llm_config.model_endpoint_type == "groq":   *)
(*   L_RETURN_GROQ            return GroqClient()                          *)
(*   L_ELIF_VENICE        elif llm_config.model_endpoint_type == "venice": *)
(*   L_RETURN_VENICE          return VeniceClient()                        *)
(*   M_IMPORT_GROQ    from letta.schemas.providers.groq import GroqProvider *)
(*   M_IMPORT_VENICE  from letta.schemas.providers.venice import VeniceProvider *)
(*   M_MAP_GROQ               ProviderType.groq: GroqProvider,             *)
(*   M_MAP_VENICE             ProviderType.venice: VeniceProvider,         *)
(*   T_DEF                def _is_model_compatible(self, llm_config):      *)
(*   T_OAUTH                      "chatgpt_oauth",                         *)
(*   T_CLOSE                  ]                                            *)
(*   T_VENICE                     "venice",                                *)
(*   V_PROVIDER       the text of patches/venice.py                        *)
(*   V_CLIENT         the text of patches/venice_client.py                 *)
(*   V_NATIVE         the text of a file of that name the installation     *)
(*                    came with                                            *)
(***************************************************************************)
\* The seven files patch.py edits, in the order main() patches them.
enums_path == "schemas/enums.py"
llm_config_path == "schemas/llm_config.py"
settings_path == "settings.py"
init_path == "schemas/providers/__init__.py"
llm_client_path == "llm_api/llm_client.py"
manager_path == "services/provider_manager.py"
streaming_path == "services/streaming_service.py"

\* The two files patch.py copies.
dst_provider == "schemas/providers/venice.py"
dst_client == "llm_api/venice_client.py"

\* files_to_restore of unpatch.py
files_to_restore ==
    <<"schemas/enums.py",
      "schemas/llm_config.py",
      "settings.py",
      "schemas/providers/__init__.py",
      "llm_api/llm_client.py",
      "services/provider_manager.py",
      "services/streaming_service.py">>

PatchedFiles ==
    {enums_path, llm_config_path, settings_path, init_path, llm_client_path,
     manager_path, streaming_path}

VeniceFiles == {dst_provider, dst_client}

\* A path of the installation: a file, or the file's backup.
Path(f) == [file |-> f, suffix |-> ""]

\* backup_path = f"{file_path}.backup"
BackupPath(f) == [file |-> f, suffix |-> ".backup"]

Paths ==
    {Path(f) : f \in PatchedFiles \cup VeniceFiles} \cup {BackupPath(f) : f \in PatchedFiles}

\* What a path holds: no file, or a file with its lines.
NoFile == [exists |-> FALSE, content |-> <<>>]
File(lines) == [exists |-> TRUE, content |-> lines]

\* os.path.exists(path)
Exists(files, p) == files[p].exists

\* The directory a copied file goes to.
DirOf(f) == IF f = dst_provider THEN "schemas/providers" ELSE "llm_api"

(***************************************************************************)
(* str methods and re.sub on lines.                                        *)
(***************************************************************************)
\* `needle in content`, for the needles patch.py looks for: the lines that
\* hold the needle.
LinesWith(needle) ==
    CASE needle = "venice = \"venice\""    -> {"E_VENICE"}
      [] needle = "\"venice\""             -> {"E_VENICE", "C_LITERAL_V", "L_ELIF_VENICE", "T_VENICE"}
      [] needle = "venice_api_key"         -> {"S_VENICE_KEY"}
      [] needle = "VeniceProvider"         -> {"I_VENICE", "M_IMPORT_VENICE", "M_MAP_VENICE"}
      [] needle = "VeniceClient"           -> {"L_IMPORT_VENICE", "L_RETURN_VENICE"}
      [] needle = "_is_model_compatible"   -> {"T_DEF"}

In(needle, content) == \E i \in 1..Len(content) : content[i] \in LinesWith(needle)

\* old occurs in content at line i.
OccursAt(content, old, i) ==
    /\ i + Len(old) - 1 <= Len(content)
    /\ SubSeq(content, i, i + Len(old) - 1) = old

RECURSIVE Replace(_, _, _)
\* content.replace(old, new), old and new being whole lines.
Replace(content, old, new) ==
    IF content = <<>> THEN <<>>
    ELSE IF OccursAt(content, old, 1)
         THEN new \o Replace(SubSeq(content, Len(old) + 1, Len(content)), old, new)
         ELSE <<Head(content)>> \o Replace(Tail(content), old, new)

\* The first line at or after i that is one of lines, 0 if there is none.
FirstFrom(content, i, lines) ==
    IF \E j \in i..Len(content) : content[j] \in lines
    THEN Min({j \in i..Len(content) : content[j] \in lines})
    ELSE 0

\* A line of the form  \w+ = "[^"]+"  after four spaces.
IsEnumEntry(l) == l \in {"E_OPENAI", "E_GROQ", "E_VENICE"}

IsProviderTypeClass(l) == l = "E_CLASS"

RECURSIVE EntriesEnd(_, _)
\* The last line of group 2 of the pattern of patch_enums, whose first entry
\* is line j: a next entry joins the group only after an empty line, since
\* each repetition begins with a newline of its own.
EntriesEnd(content, j) ==
    IF /\ j + 2 <= Len(content)
       /\ content[j + 1] = "BLANK"
       /\ IsEnumEntry(content[j + 2])
    THEN EntriesEnd(content, j + 2)
    ELSE j

RECURSIVE add_venice(_)
\* re.sub(pattern, add_venice, content, flags=re.DOTALL) of patch_enums: from
\* the class line, lazily to the first entry line; venice is added after the
\* entries of the group.
add_venice(content) ==
    LET all == {content[k] : k \in 1..Len(content)}
        i == FirstFrom(content, 1, {l \in all : IsProviderTypeClass(l)})
        j == IF i = 0 THEN 0 ELSE FirstFrom(content, i + 1, {l \in all : IsEnumEntry(l)})
    IN IF j = 0 THEN content
       ELSE LET e == EntriesEnd(content, j)
            IN SubSeq(content, 1, e) \o <<"E_VENICE">>
               \o add_venice(SubSeq(content, e + 1, Len(content)))

\* re.sub(r'(Literal\[[^\]]*)"groq"([^\]]*\])', r'\1"groq", "venice"\2', content)
add_venice_literal(content) == Replace(content, <<"C_LITERAL">>, <<"C_LITERAL_V">>)

IsModelSettingsClass(l) == l = "S_CLASS"

\* A line that begins with four spaces and "# ".
IsComment(l) == l \in {"S_COMMENT", "S_VENICE"}

venice_settings == <<"S_VENICE", "S_VENICE_KEY", "S_VENICE_URL", "BLANK">>

RECURSIVE add_venice_settings(_)
\* re.sub(pattern, r'\1' + venice_settings + r'\2', content, flags=re.DOTALL)
\* of patch_settings: the settings go before the first comment line after
\* the class line.
add_venice_settings(content) ==
    LET all == {content[k] : k \in 1..Len(content)}
        i == FirstFrom(content, 1, {l \in all : IsModelSettingsClass(l)})
        j == IF i = 0 THEN 0 ELSE FirstFrom(content, i + 1, {l \in all : IsComment(l)})
    IN IF j = 0 THEN content
       ELSE SubSeq(content, 1, j - 1) \o venice_settings \o <<content[j]>>
            \o add_venice_settings(SubSeq(content, j + 1, Len(content)))

\* content += '\nfrom letta.schemas.providers.venice import VeniceProvider\n'
add_provider_import(content) == content \o <<"BLANK", "I_VENICE">>

\* The two replacements of patch_llm_client.
add_venice_client(content) ==
    Replace(Replace(content, <<"L_IMPORT_GROQ">>, <<"L_IMPORT_GROQ", "L_IMPORT_VENICE">>),
            <<"L_ELIF_GROQ", "L_RETURN_GROQ">>,
            <<"L_ELIF_GROQ", "L_RETURN_GROQ", "L_ELIF_VENICE", "L_RETURN_VENICE">>)

\* The two replacements of patch_provider_manager.
add_venice_provider(content) ==
    Replace(Replace(content, <<"M_IMPORT_GROQ">>, <<"M_IMPORT_GROQ", "M_IMPORT_VENICE">>),
            <<"M_MAP_GROQ">>,
            <<"M_MAP_GROQ", "M_MAP_VENICE">>)

\* The replacement of patch_streaming_service.
add_venice_compatible(content) ==
    Replace(content, <<"T_OAUTH", "T_CLOSE">>, <<"T_OAUTH", "T_VENICE", "T_CLOSE">>)

(***************************************************************************)
(* The functions of patch.py, as functions of the files.                   *)
(***************************************************************************)
\* Faulty variant of backup_file: the backup is written again at every run.
backup_file_always(files, f) == [files EXCEPT ![BackupPath(f)] = files[Path(f)]]

\* backup_file(file_path): shutil.copy2 unless the backup exists.
backup_file(files, f) ==
    IF ~Exists(files, BackupPath(f))
    THEN [files EXCEPT ![BackupPath(f)] = files[Path(f)]]
    ELSE files

\* The body shared by the seven patch functions: nothing when the file is
\* not found; else the backup, then the file read, left alone when it
\* counts as already patched and written with the new content otherwise.
Patched(files, f, already, content) ==
    IF ~Exists(files, Path(f)) THEN files
    ELSE IF already THEN backup_file(files, f)
    ELSE [backup_file(files, f) EXCEPT ![Path(f)] = File(content)]

\* file.read() of an existing file (no lines for a missing one, which the
\* patch functions never read).
Read(files, f) == files[Path(f)].content

patch_enums(files) ==
    Patched(files, enums_path,
            In("venice = \"venice\"", Read(files, enums_path)),
            add_venice(Read(files, enums_path)))

patch_llm_config(files) ==
    Patched(files, llm_config_path,
            In("\"venice\"", Read(files, llm_config_path)),
            add_venice_literal(Read(files, llm_config_path)))

patch_settings(files) ==
    Patched(files, settings_path,
            In("venice_api_key", Read(files, settings_path)),
            add_venice_settings(Read(files, settings_path)))

\* Faulty variant of patch_provider_init: no test for an earlier patch.
patch_provider_init_unguarded(files) ==
    Patched(files, init_path, FALSE, add_provider_import(Read(files, init_path)))

patch_provider_init(files) ==
    Patched(files, init_path,
            In("VeniceProvider", Read(files, init_path)),
            add_provider_import(Read(files, init_path)))

patch_llm_client(files) ==
    Patched(files, llm_client_path,
            In("VeniceClient", Read(files, llm_client_path)),
            add_venice_client(Read(files, llm_client_path)))

patch_provider_manager(files) ==
    Patched(files, manager_path,
            In("VeniceProvider", Read(files, manager_path)),
            add_venice_provider(Read(files, manager_path)))

patch_streaming_service(files) ==
    Patched(files, streaming_path,
            /\ In("\"venice\"", Read(files, streaming_path))
            /\ In("_is_model_compatible", Read(files, streaming_path)),
            add_venice_compatible(Read(files, streaming_path)))

\* The text of the file patch.py copies to dst.
PatchSource(dst) == IF dst = dst_provider THEN <<"V_PROVIDER">> ELSE <<"V_CLIENT">>

\* One half of copy_venice_files: [raised, files].  shutil.copy2 raises
\* FileNotFoundError when the directory of dst does not exist.
CopyVeniceFile(files, dst) ==
    IF Exists(files, Path(dst)) THEN [raised |-> FALSE, files |-> files]
    ELSE IF DirOf(dst) \notin dirs THEN [raised |-> TRUE, files |-> files]
    ELSE [raised |-> FALSE, files |-> [files EXCEPT ![Path(dst)] = File(PatchSource(dst))]]

\* copy_venice_files(letta_path, patch_dir)
copy_venice_files(files) ==
    LET provider == CopyVeniceFile(files, dst_provider)
    IN IF provider.raised THEN provider ELSE CopyVeniceFile(provider.files, dst_client)

(***************************************************************************)
(* The functions of unpatch.py.                                            *)
(***************************************************************************)
\* restore_backup(file_path): shutil.copy2 and os.remove when the backup
\* exists.
restore_backup(files, f) ==
    IF Exists(files, BackupPath(f))
    THEN [files EXCEPT ![Path(f)] = files[BackupPath(f)], ![BackupPath(f)] = NoFile]
    ELSE files

\* remove_venice_files(letta_path)
remove_venice_files(files) ==
    [p \in Paths |-> IF p \in {Path(dst_provider), Path(dst_client)} THEN NoFile ELSE files[p]]

(***************************************************************************)
(* The installations: the seven files as the release ships them, up to     *)
(* MaxDeviations of: a file of another shape (on which the patch of that   *)
(* file finds nothing to edit, or no sign of its own edit), a missing      *)
(* file, a missing directory, a file named like one of the two copied      *)
(* files; and the installation whose path does not exist.  No installation *)
(* holds a backup: only patch.py writes them.                              *)
(***************************************************************************)
Stock(f) ==
    CASE f = enums_path      -> <<"E_CLASS", "E_OPENAI", "E_GROQ">>
      [] f = llm_config_path -> <<"C_IMPORT", "C_LITERAL">>
      [] f = settings_path   -> <<"S_CLASS", "S_COMMENT", "S_FIELD">>
      [] f = init_path       -> <<"I_GROQ">>
      [] f = llm_client_path -> <<"L_IMPORT_GROQ", "L_ELIF_GROQ", "L_RETURN_GROQ">>
      [] f = manager_path    -> <<"M_IMPORT_GROQ", "M_MAP_GROQ">>
      [] f = streaming_path  -> <<"T_DEF", "T_OAUTH", "T_CLOSE">>

Other(f) ==
    CASE f = enums_path      -> <<"E_IMPORT">>
      [] f = llm_config_path -> <<"C_IMPORT">>
      [] f = settings_path   -> <<"S_CLASS", "S_FIELD">>
      [] f = init_path       -> <<>>
      [] f = llm_client_path -> <<"L_ELIF_GROQ", "L_RETURN_GROQ">>
      [] f = manager_path    -> <<"M_IMPORT_GROQ">>
      [] f = streaming_path  -> <<"T_OAUTH", "T_CLOSE">>

Directories == {".", "schemas/providers", "llm_api"}

\* The files of an installation whose file f is of kind k[f].
FilesOf(k) ==
    [p \in Paths |->
        IF p.suffix = ".backup" THEN NoFile
        ELSE CASE k[p.file] = "stock"  -> File(Stock(p.file))
               [] k[p.file] = "other"  -> File(Other(p.file))
               [] k[p.file] = "native" -> File(<<"V_NATIVE">>)
               [] k[p.file] = "absent" -> NoFile]

Kinds ==
    {k \in [PatchedFiles \cup VeniceFiles -> {"stock", "other", "native", "absent"}] :
        /\ \A f \in PatchedFiles : k[f] \in {"stock", "other", "absent"}
        /\ \A f \in VeniceFiles : k[f] \in {"native", "absent"}}

\* A directory holds every file found in it.
DirsFit(k, d) ==
    /\ "." \in d
    /\ (k[init_path] # "absent" \/ k[dst_provider] # "absent") => "schemas/providers" \in d
    /\ (k[llm_client_path] # "absent" \/ k[dst_client] # "absent") => "llm_api" \in d

Deviations(k, d) ==
    Cardinality({f \in PatchedFiles : k[f] # "stock"})
    + Cardinality({f \in VeniceFiles : k[f] # "absent"})
    + Cardinality(Directories \ d)

InstallInit ==
    /\ \/ \E k \in Kinds : \E d \in SUBSET Directories :
             /\ DirsFit(k, d)
             /\ Deviations(k, d) <= MaxDeviations
             /\ fs = FilesOf(k)
             /\ dirs = d
       \/ /\ fs = [p \in Paths |-> NoFile]
          /\ dirs = {}
    /\ original = fs
    /\ at_start = fs
    /\ script = "idle"
    /\ step = "none"
    /\ history = <<>>
    /\ text = <<>>
    /\ pc = "unused"
    /\ tool_calls = <<>>
    /\ frames = <<>>
    /\ heap = <<>>
    /\ ClientUnused

\* The variables that the scripts leave alone.
outside_install == <<text, pc, tool_calls, frames, heap, client_vars>>

(***************************************************************************)
(* main() of patch.py, one action per call.                                *)
(***************************************************************************)
\* The script is started; sys.exit(1) when letta_path does not exist.
StartPatch ==
    /\ script = "idle"
    /\ Len(history) < MaxRuns
    /\ script' = "patch"
    /\ step' = IF "." \in dirs THEN "copy_venice_files" ELSE "exit"
    /\ at_start' = fs
    /\ UNCHANGED <<fs, dirs, history, original, outside_install>>

\* A step of patch.py that takes the files to files2 and goes on at next.
PatchStep(this, files2, next) ==
    /\ script = "patch"
    /\ step = this
    /\ fs' = files2
    /\ step' = next
    /\ UNCHANGED <<dirs, script, history, original, at_start, outside_install>>

CopyVeniceFiles ==
    LET r == copy_venice_files(fs)
    IN PatchStep("copy_venice_files", r.files, IF r.raised THEN "raised" ELSE "patch_enums")

PatchEnums == PatchStep("patch_enums", patch_enums(fs), "patch_llm_config")

PatchLlmConfig == PatchStep("patch_llm_config", patch_llm_config(fs), "patch_settings")

PatchSettings == PatchStep("patch_settings", patch_settings(fs), "patch_provider_init")

PatchProviderInit ==
    PatchStep("patch_provider_init", patch_provider_init(fs), "patch_llm_client")

PatchLlmClient ==
    PatchStep("patch_llm_client", patch_llm_client(fs), "patch_provider_manager")

PatchProviderManager ==
    PatchStep("patch_provider_manager", patch_provider_manager(fs), "patch_streaming_service")

PatchStreamingService ==
    PatchStep("patch_streaming_service", patch_streaming_service(fs), "complete")

\* The script ends: after its last statement, by sys.exit(1) or by the
\* exception of copy_venice_files.
EndPatch ==
    /\ script = "patch"
    /\ step \in {"complete", "exit", "raised"}
    /\ script' = "idle"
    /\ step' = "none"
    /\ history' = Append(history, "patch")
    /\ UNCHANGED <<fs, dirs, original, at_start, outside_install>>

(***************************************************************************)
(* main() of unpatch.py.                                                   *)
(***************************************************************************)
StartUnpatch ==
    /\ script = "idle"
    /\ Len(history) < MaxRuns
    /\ script' = "unpatch"
    /\ step' = IF "." \in dirs THEN "remove_venice_files" ELSE "exit"
    /\ at_start' = fs
    /\ UNCHANGED <<fs, dirs, history, original, outside_install>>

RemoveVeniceFiles ==
    /\ script = "unpatch"
    /\ step = "remove_venice_files"
    /\ fs' = remove_venice_files(fs)
    /\ step' = files_to_restore[1]
    /\ UNCHANGED <<dirs, script, history, original, at_start, outside_install>>

\* One turn of  for file_rel in files_to_restore: restore_backup(file_path)
RestoreBackup ==
    /\ script = "unpatch"
    /\ \E i \in 1..Len(files_to_restore) :
          /\ step = files_to_restore[i]
          /\ fs' = restore_backup(fs, files_to_restore[i])
          /\ step' = IF i < Len(files_to_restore) THEN files_to_restore[i + 1] ELSE "complete"
    /\ UNCHANGED <<dirs, script, history, original, at_start, outside_install>>

EndUnpatch ==
    /\ script = "unpatch"
    /\ step \in {"complete", "exit"}
    /\ script' = "idle"
    /\ step' = "none"
    /\ history' = Append(history, "unpatch")
    /\ UNCHANGED <<fs, dirs, original, at_start, outside_install>>

InstallNext ==
    \/ StartPatch
    \/ CopyVeniceFiles
    \/ PatchEnums
    \/ PatchLlmConfig
    \/ PatchSettings
    \/ PatchProviderInit
    \/ PatchLlmClient
    \/ PatchProviderManager
    \/ PatchStreamingService
    \/ EndPatch
    \/ StartUnpatch
    \/ RemoveVeniceFiles
    \/ RestoreBackup
    \/ EndUnpatch

InstallSpec == InstallInit /\ [][InstallNext]_vars

(***************************************************************************)
(* VeniceClient: the shaping of a request before it is sent.               *)
(*                                                                         *)
(* A dict is a sequence of <<key, value>> pairs in insertion order.  The   *)
(* values are JSON values, None and lists among them.  The class-level     *)
(* cache is a function from model names to the Python values that          *)
(* _fetch_model_capabilities stores: supportsFunctionCalling as the API    *)
(* sent it, true, false or null.                                           *)
(***************************************************************************)
MaxMessages == 2

JList(l) == [type |-> "list", items |-> l]
JNone == [type |-> "None"]

\* dict.keys()
Keys(data) == [i \in 1..Len(data) |-> data[i][1]]

\* key in data, for a dict in insertion order
HasKey(data, key) == \E i \in 1..Len(data) : data[i][1] = key

\* data.get(key, default)
DictGet(data, key, default) ==
    IF HasKey(data, key)
    THEN data[CHOOSE i \in 1..Len(data) : data[i][1] = key][2]
    ELSE default

\* data[key] = value: an existing key keeps its place, a new one goes last.
DictSet(data, key, value) ==
    IF HasKey(data, key)
    THEN [i \in 1..Len(data) |-> IF data[i][1] = key THEN <<key, value>> ELSE data[i]]
    ELSE Append(data, <<key, value>>)

RECURSIVE WithoutKeys(_, _)
\* {k: v for k, v in data.items() if k not in keys}
WithoutKeys(data, keys) ==
    IF data = <<>> THEN <<>>
    ELSE IF Head(data)[1] \in keys THEN WithoutKeys(Tail(data), keys)
    ELSE <<Head(data)>> \o WithoutKeys(Tail(data), keys)

RECURSIVE filter_none_values(_)
\* {k: v for k, v in data.items() if v is not None}
filter_none_values(data) ==
    IF data = <<>> THEN <<>>
    ELSE IF Head(data)[2] = JNone THEN filter_none_values(Tail(data))
    ELSE <<Head(data)>> \o filter_none_values(Tail(data))

\* The names of the models of the API.
ModelIds == {"m1", "m2"}

\* The values of supportsFunctionCalling, as Python values.
CapabilityValues == {"True", "False", "None"}

\* What _fetch_model_capabilities can return: a capability for some of the
\* models, for none of them when the fetch fails.
Capabilities == UNION {[S -> CapabilityValues] : S \in SUBSET ModelIds}

\* cache.update(capabilities)
Update(cache, capabilities) ==
    [m \in DOMAIN cache \cup DOMAIN capabilities |->
        IF m \in DOMAIN capabilities THEN capabilities[m] ELSE cache[m]]

\* data.get("model", ""), as the key of the cache
ModelOf(data) == DictGet(data, "model", JStr("")).chars

\* self._model_capabilities_cache.get(model, True)
supports_tools(cache, model) ==
    IF model \in DOMAIN cache THEN cache[model] ELSE "True"

\* not value
Not(value) == value \in {"False", "None"}

\* isinstance(msg, dict) and msg.get("role") == "tool"
IsToolMessage(msg) ==
    /\ msg.type = "object"
    /\ "role" \in DOMAIN msg.members
    /\ msg.members.role = JStr("tool")

\* msg.get(key, "")
MessageGet(msg, key) ==
    IF key \in DOMAIN msg.members THEN msg.members[key] ELSE JStr("")

\* A value formatted in an f-string.
Format(value) ==
    CASE value.type = "string" -> value.chars
      [] value.type = "None"   -> "None"

\* {"role": "user", "content": f"Tool result (ID: {tool_call_id}):\n{content}"}
ConvertedMessage(msg) ==
    JObj([role |-> JStr("user"),
          content |-> JStr("Tool result (ID: " \o Format(MessageGet(msg, "tool_call_id"))
                           \o "):\n" \o Format(MessageGet(msg, "content")))])

\* The loop over the messages.
converted_messages(messages) ==
    [i \in 1..Len(messages) |->
        IF IsToolMessage(messages[i]) THEN ConvertedMessage(messages[i]) ELSE messages[i]]

\* Faulty variant of filter_tools_if_unsupported: tool_choice is left in.
filter_tools_key_only(cache, data) ==
    IF Not(supports_tools(cache, ModelOf(data)))
    THEN LET filtered == WithoutKeys(data, {"tools"})
             messages == DictGet(filtered, "messages", JList(<<>>)).items
         IN DictSet(filtered, "messages", JList(converted_messages(messages)))
    ELSE data

\* _filter_tools_if_unsupported(data)
filter_tools_if_unsupported(cache, data) ==
    IF Not(supports_tools(cache, ModelOf(data)))
    THEN LET filtered == WithoutKeys(data, {"tools", "tool_choice"})
             messages == DictGet(filtered, "messages", JList(<<>>)).items
         IN DictSet(filtered, "messages", JList(converted_messages(messages)))
    ELSE data

\* The API that request and request_async choose.
EndpointOf(data) ==
    IF HasKey(data, "input") /\ ~HasKey(data, "messages")
    THEN "responses" ELSE "chat.completions"

(***************************************************************************)
(* The requests: each key present or not, in one of two insertion orders.  *)
(***************************************************************************)
M_USER == JObj([role |-> JStr("user"), content |-> JStr("hi")])
M_TOOL == JObj([role |-> JStr("tool"), tool_call_id |-> JStr("call_1"), content |-> JStr("4")])
M_TOOL_NONE == JObj([role |-> JStr("tool"), tool_call_id |-> JStr("call_2"), content |-> JNone])
M_TOOL_BARE == JObj([role |-> JStr("tool")])
M_RAW == JStr("tool")

Messages == {M_USER, M_TOOL, M_TOOL_NONE, M_TOOL_BARE, M_RAW}
MessageLists == UNION {[1..n -> Messages] : n \in 0..MaxMessages}

\* The key is not in the dict.
Absent == [type |-> "absent"]

KeyOrders == {<<"model", "messages", "tools", "tool_choice", "input">>,
              <<"tools", "input", "tool_choice", "messages", "model">>}

Choices ==
    [model : {Absent} \cup {JStr(m) : m \in ModelIds},
     messages : {Absent} \cup {JList(l) : l \in MessageLists},
     tools : {Absent, JList(<<JStr("get_weather")>>)},
     tool_choice : {Absent, JStr("auto"), JNone},
     input : {Absent, JStr("hi")}]

RECURSIVE DictOf(_, _)
\* The dict with the chosen values, in the given order of keys.
DictOf(order, choice) ==
    IF order = <<>> THEN <<>>
    ELSE IF choice[Head(order)] = Absent THEN DictOf(Tail(order), choice)
    ELSE <<<<Head(order), choice[Head(order)]>>>> \o DictOf(Tail(order), choice)

Requests == {DictOf(order, choice) : order \in KeyOrders, choice \in Choices}

ClientInit ==
    /\ model_capabilities_cache = <<>>
    /\ request_data = <<>>
    /\ none_filtered = <<>>
    /\ filtered_data = <<>>
    /\ endpoint = "idle"
    /\ text = <<>>
    /\ pc = "unused"
    /\ tool_calls = <<>>
    /\ frames = <<>>
    /\ heap = <<>>
    /\ InstallUnused

\* The variables that the client leaves alone.
outside_client == <<text, pc, tool_calls, frames, heap, install_vars>>

\* The two filters and the choice of the API, under the cache given.
Send(cache, data) ==
    /\ request_data' = data
    /\ none_filtered' = filter_none_values(data)
    /\ filtered_data' = filter_tools_if_unsupported(cache, filter_none_values(data))
    /\ endpoint' = EndpointOf(filter_tools_if_unsupported(cache, filter_none_values(data)))

\* request(request_data, llm_config), up to the call of the API
Request(data) ==
    /\ endpoint = "idle"
    /\ model_capabilities_cache' = model_capabilities_cache
    /\ Send(model_capabilities_cache, data)
    /\ UNCHANGED outside_client

\* model and model not in self._model_capabilities_cache
NotCached(cache, data) == ModelOf(data) # "" /\ ModelOf(data) \notin DOMAIN cache

\* request_async(request_data, llm_config), up to the call of the API, for
\* a model of the cache or no model: nothing is fetched.
RequestAsyncCached(data) ==
    /\ endpoint = "idle"
    /\ ~NotCached(model_capabilities_cache, data)
    /\ model_capabilities_cache' = model_capabilities_cache
    /\ Send(model_capabilities_cache, data)
    /\ UNCHANGED outside_client

\* request_async(request_data, llm_config), up to the call of the API, for
\* a model not in the cache: _supports_tools_async fetches the model list,
\* here capabilities, and updates the cache with it.
RequestAsyncFetch(data, capabilities) ==
    /\ endpoint = "idle"
    /\ NotCached(model_capabilities_cache, data)
    /\ model_capabilities_cache' = Update(model_capabilities_cache, capabilities)
    /\ Send(Update(model_capabilities_cache, capabilities), data)
    /\ UNCHANGED outside_client

\* The API answers and the call returns.
Respond ==
    /\ endpoint \in {"responses", "chat.completions"}
    /\ request_data' = <<>>
    /\ none_filtered' = <<>>
    /\ filtered_data' = <<>>
    /\ endpoint' = "idle"
    /\ UNCHANGED <<model_capabilities_cache, outside_client>>

\* A request is taken up only when none is under way.
ClientNext ==
    \/ endpoint = "idle" /\ \E data \in Requests : Request(data)
    \/ endpoint = "idle" /\ \E data \in Requests : RequestAsyncCached(data)
    \/ endpoint = "idle" /\ \E data \in Requests : \E capabilities \in Capabilities :
                                RequestAsyncFetch(data, capabilities)
    \/ Respond

ClientSpec == ClientInit /\ [][ClientNext]_vars

(***************************************************************************)
(* Vocabulary of the properties: what a text holds, read off its lexemes.  *)
(***************************************************************************)
Has(t) == \E i \in 1..Len(text) : text[i] = t

Count(t) == Cardinality({i \in 1..Len(text) : text[i] = t})

\* Payloads that are JSON objects with the keys function and params.
KeyedPayloads == {"P_A", "P_B", "P_RUN", "P_TYPES", "P_EXTRA"}

\* Of those, the ones whose function is a non-empty string and whose params
\* is an object.
WellFormedPayloads == {"P_A", "P_B", "P_RUN", "P_EXTRA"}

\* Invalid JSON, or an object without the function key.
MalformedPayloads == {"P_TRUNC", "P_INBAD", "P_NOKEY"}

PayloadLexemes == KeyedPayloads \cup MalformedPayloads \cup {"P_NUM"}

\* Lexeme i begins a marker-delimited region whose payload is p.
MarkerBlockAt(i, p) ==
    /\ i + 4 <= Len(text)
    /\ SubSeq(text, i, i + 4) = <<"START", "NL", p, "NL", "END">>

\* Lexeme i begins a fenced region without a tag whose body is p.
PlainFenceAt(i, p) ==
    /\ i >= 1
    /\ i + 5 <= Len(text)
    /\ SubSeq(text, i, i + 5) = <<"FENCE", "NL", p, "NL", "FENCE", "NL">>

\* Lexeme i begins a fenced region with the tag json whose body is p.
TaggedFenceAt(i, p) ==
    /\ i >= 1
    /\ i + 6 <= Len(text)
    /\ SubSeq(text, i, i + 6) = <<"FENCE", "TAG", "NL", p, "NL", "FENCE", "NL">>

\* Lexeme i begins a fenced region, with or without the tag, whose body is p.
FencedBlockAt(i, p) == PlainFenceAt(i, p) \/ TaggedFenceAt(i, p)

\* The invocation a payload describes, at confidence c (in tenths).
CallOf(p, c) ==
    [name |-> LoadLexeme(p).members.function,
     params |-> LoadLexeme(p).members.params,
     confidence |-> c]

\* Every start token of the text begins a marker-delimited region whose
\* payload is in P.
EveryRegionIn(P) ==
    \A i \in 1..Len(text) :
        text[i] = "START" => \E p \in P : MarkerBlockAt(i, p)

\* Every fence of the text opens or closes a fenced region whose body is in P.
EveryFenceIn(P) ==
    \A i \in 1..Len(text) :
        text[i] = "FENCE" =>
            \E p \in P :
                \/ FencedBlockAt(i, p)
                \/ PlainFenceAt(i - 4, p)
                \/ TaggedFenceAt(i - 5, p)

EveryRegionKeyed == EveryRegionIn(KeyedPayloads)
EveryFenceKeyed == EveryFenceIn(KeyedPayloads)

Finished == pc \in {"returned", "raised"}

(***************************************************************************)
(* C1.  For every text, extract_tool_calls returns the result of the first *)
(* strategy, in the order markers, fenced blocks, inline, that yields at   *)
(* least one invocation, and the empty list when none does; with a valid   *)
(* marker payload and a valid fenced payload in the text, only marker      *)
(* invocations are returned.  The marker strategy lets a TypeError escape  *)
(* (C2), and then nothing is returned.                                     *)
(***************************************************************************)
C1_FirstYieldingStrategy ==
    Finished =>
        /\ pc = "returned"
        /\ LET m == ExtractWithMarkers(text).calls
               f == ExtractFromCodeBlocks(text).calls
               n == ExtractInlineJson(text).calls
           IN tool_calls = IF m # <<>> THEN m ELSE IF f # <<>> THEN f ELSE n
        /\ (/\ \E i \in 1..Len(text) : \E p \in WellFormedPayloads : MarkerBlockAt(i, p)
            /\ \E i \in 1..Len(text) : \E p \in WellFormedPayloads : FencedBlockAt(i, p))
           => /\ tool_calls # <<>>
              /\ \A k \in 1..Len(tool_calls) : tool_calls[k].confidence = 10

(***************************************************************************)
(* C2.  extract_tool_calls never raises, whatever the text.                *)
(***************************************************************************)
C2_NeverRaises == pc # "raised"

(***************************************************************************)
(* C3.  Every returned invocation has a non-empty string as name and a     *)
(* JSON object as params.                                                  *)
(***************************************************************************)
C3_NameAndParamsTyped ==
    pc = "returned" =>
        \A k \in 1..Len(tool_calls) :
            /\ tool_calls[k].name.type = "string"
            /\ tool_calls[k].name # JStr("")
            /\ tool_calls[k].params.type = "object"

(***************************************************************************)
(* C4.  Every invocation carries the confidence of the strategy that       *)
(* produced it: 1.0 from markers, 0.8 from fenced blocks, 0.6 from inline  *)
(* fragments (10, 8, 6 tenths); one result never mixes confidences.        *)
(***************************************************************************)
C4_ConfidencePerStrategy ==
    LET conf(k) == tool_calls[k].confidence
        all(c) == \A k \in 1..Len(tool_calls) : conf(k) = c
        markers == ExtractWithMarkers(text).calls
        blocks == ExtractFromCodeBlocks(text).calls
    IN /\ pc = "markers_done" => all(10)
       /\ pc = "code_blocks_done" /\ markers = <<>> => all(8)
       /\ pc \in {"inline_done", "returned"} =>
             all(IF markers # <<>> THEN 10 ELSE IF blocks # <<>> THEN 8 ELSE 6)

C4_Witness ==
    /\ pc = "returned"
    /\ Len(tool_calls) = 2
    /\ tool_calls[1].confidence = 8
    /\ tool_calls[2].confidence = 8
    /\ Has("USING")

(***************************************************************************)
(* C5.  As stated: a text that contains a well-formed marker-delimited     *)
(* payload with the required keys yields exactly one invocation, of        *)
(* confidence 1.0, with the payload's function and params.  Stated here on *)
(* the texts all of whose marker-delimited regions are such payloads: two  *)
(* of them yield two invocations.                                          *)
(***************************************************************************)
C5_ExactlyOneInvocation ==
    (pc = "returned" /\ EveryRegionKeyed) =>
        \A i \in 1..Len(text) : \A p \in KeyedPayloads :
            MarkerBlockAt(i, p) => tool_calls = <<CallOf(p, 10)>>

(***************************************************************************)
(* C5, amended.  A text that contains exactly one start token and exactly  *)
(* one end token, delimiting a well-formed payload with the required keys, *)
(* yields exactly one invocation, of confidence 1.0, with the payload's    *)
(* function and params.                                                    *)
(***************************************************************************)
C5_ExactlyOneWhenSingleRegion ==
    (Finished /\ Count("START") = 1 /\ Count("END") = 1) =>
        \A i \in 1..Len(text) : \A p \in KeyedPayloads :
            MarkerBlockAt(i, p) => pc = "returned" /\ tool_calls = <<CallOf(p, 10)>>

C5_Witness ==
    /\ pc = "returned"
    /\ Count("START") = 1
    /\ Count("END") = 1
    /\ \E i \in 1..Len(text) : MarkerBlockAt(i, "P_B")
    /\ \E i \in 1..Len(text) : FencedBlockAt(i, "P_A")
    /\ tool_calls = <<CallOf("P_B", 10)>>

(***************************************************************************)
(* C6.  A text that contains a well-formed fenced JSON payload (with or    *)
(* without the tag) and no marker-delimited payload yields a non-empty     *)
(* result whose invocations all have confidence 0.8.  An earlier fence     *)
(* whose body has no closing brace makes the pattern run on to the closing *)
(* brace of the well-formed payload, and the fenced strategy yields        *)
(* nothing.                                                                *)
(***************************************************************************)
C6_FencedPayloadYields ==
    (/\ Finished
     /\ ~Has("START")
     /\ ~Has("END")
     /\ \E i \in 1..Len(text) : \E p \in WellFormedPayloads : FencedBlockAt(i, p))
    => /\ pc = "returned"
       /\ tool_calls # <<>>
       /\ \A k \in 1..Len(tool_calls) : tool_calls[k].confidence = 8

(***************************************************************************)
(* C7.  Invocations come in the left-to-right order of their matches: a    *)
(* text with n >= 1 marker-delimited regions, each a payload with the      *)
(* required keys, yields n invocations, the i-th from the i-th region,     *)
(* each of confidence 1.0.  The same holds of the fenced regions of a text *)
(* without markers.                                                        *)
(***************************************************************************)
RECURSIVE MarkerCallsInOrder(_)
MarkerCallsInOrder(i) ==
    IF i > Len(text) THEN <<>>
    ELSE IF text[i] = "START" THEN <<CallOf(text[i + 2], 10)>> \o MarkerCallsInOrder(i + 1)
    ELSE MarkerCallsInOrder(i + 1)

RECURSIVE FencedCallsInOrder(_)
FencedCallsInOrder(i) ==
    IF i > Len(text) THEN <<>>
    ELSE IF \E p \in KeyedPayloads : FencedBlockAt(i, p)
         THEN LET p == CHOOSE q \in KeyedPayloads : FencedBlockAt(i, q)
              IN <<CallOf(p, 8)>> \o FencedCallsInOrder(i + 1)
         ELSE FencedCallsInOrder(i + 1)

C7_SourceOrder ==
    /\ (Finished /\ Has("START") /\ EveryRegionKeyed) =>
           pc = "returned" /\ tool_calls = MarkerCallsInOrder(1)
    /\ (Finished /\ ~Has("START") /\ Has("FENCE") /\ EveryFenceKeyed) =>
           pc = "returned" /\ tool_calls = FencedCallsInOrder(1)

C7_Witness ==
    /\ pc = "returned"
    /\ EveryRegionKeyed
    /\ tool_calls = <<CallOf("P_B", 10), CallOf("P_A", 10), CallOf("P_B", 10)>>

C7_FencedWitness ==
    /\ pc = "returned"
    /\ ~Has("START")
    /\ EveryFenceKeyed
    /\ tool_calls = <<CallOf("P_B", 8), CallOf("P_A", 8)>>

(***************************************************************************)
(* The window of _is_likely_tool_call, recomputed from the text: the cue   *)
(* words that lie wholly within 100 characters before and 100 characters   *)
(* after the first character of lexeme i, clipped to the text.             *)
(***************************************************************************)
\* Lexeme t holds the cue word w.
Holds(t, w) ==
    \/ t = "USING" /\ w = "using"
    \/ t = "COULD" /\ w = "could"
    \/ t = "P_RUN" /\ w = "run"
    \/ t = "EXECUTED" /\ w = "execute"

\* The first character of the cue word of lexeme c, and the character after
\* its last: using and could fill their lexemes, execute is the first seven
\* characters of EXECUTED, run follows the 14 characters {"function": " of
\* P_RUN.
CueFrom(c) == IF text[c] = "P_RUN" THEN Offset(text, c) + 14 ELSE Offset(text, c)
CueUpto(c) ==
    CASE text[c] = "P_RUN"    -> CueFrom(c) + 3
      [] text[c] = "EXECUTED" -> CueFrom(c) + 7
      [] OTHER                -> CueFrom(c) + 5

CueInWindow(i, w) ==
    LET o == Offset(text, i)
        lo == IF o < 100 THEN 0 ELSE o - 100
        hi == IF o + 100 > CharLen(text) THEN CharLen(text) ELSE o + 100
    IN \E c \in 1..Len(text) : Holds(text[c], w) /\ lo <= CueFrom(c) /\ CueUpto(c) <= hi

CallCues(i) == Cardinality({w \in {"using", "run", "execute"} : CueInWindow(i, w)})
DiscussionCues(i) == Cardinality({w \in {"could"} : CueInWindow(i, w)})

\* The cue words anywhere in the text.
CueInText(w) == \E c \in 1..Len(text) : Holds(text[c], w)

\* Inline fragments whose params parse.
InlinePayloads == {"P_A", "P_B", "P_RUN"}

RECURSIVE InlineCallsInOrder(_)
\* All well-formed inline fragments of the text from lexeme i on.
InlineCallsInOrder(i) ==
    IF i > Len(text) THEN <<>>
    ELSE IF text[i] \in InlinePayloads
         THEN <<CallOf(text[i], 6)>> \o InlineCallsInOrder(i + 1)
         ELSE InlineCallsInOrder(i + 1)

RECURSIVE AcceptedInOrder(_)
\* The well-formed inline fragments whose window holds more call cues than
\* discussion cues.
AcceptedInOrder(i) ==
    IF i > Len(text) THEN <<>>
    ELSE IF text[i] \in InlinePayloads /\ CallCues(i) > DiscussionCues(i)
         THEN <<CallOf(text[i], 6)>> \o AcceptedInOrder(i + 1)
         ELSE AcceptedInOrder(i + 1)

Range(f) == {f[k] : k \in DOMAIN f}

(***************************************************************************)
(* C8.  A candidate whose payload is invalid JSON or lacks a required key  *)
(* is discarded without aborting the scan: every well-formed candidate of  *)
(* the same strategy, before or after it, is still returned, and a text    *)
(* whose only candidate is malformed yields the empty list.  Stated on the *)
(* texts whose markers and fences all delimit regions.  A fenced body with *)
(* no closing brace is not discarded alone: the match runs on through the  *)
(* next fenced region (the pattern fault of C6).                           *)
(***************************************************************************)
C8_MalformedDiscarded ==
    /\ (/\ pc = "markers_done"
        /\ EveryRegionIn(PayloadLexemes)
        /\ \E i \in 1..Len(text) : \E p \in MalformedPayloads : MarkerBlockAt(i, p))
       => \A j \in 1..Len(text) : \A q \in WellFormedPayloads :
              MarkerBlockAt(j, q) => CallOf(q, 10) \in Range(tool_calls)
    /\ (/\ pc = "code_blocks_done"
        /\ ~Has("START")
        /\ EveryFenceIn(PayloadLexemes)
        /\ \E i \in 1..Len(text) : \E p \in MalformedPayloads : FencedBlockAt(i, p))
       => \A j \in 1..Len(text) : \A q \in WellFormedPayloads :
              FencedBlockAt(j, q) => CallOf(q, 8) \in Range(tool_calls)
    /\ (/\ pc = "inline_done"
        /\ ~Has("START")
        /\ ~Has("FENCE")
        /\ Has("P_INBAD"))
       => tool_calls = AcceptedInOrder(1)
    /\ (/\ pc = "returned"
        /\ Cardinality({i \in 1..Len(text) : text[i] \in PayloadLexemes}) = 1
        /\ \E p \in MalformedPayloads : Has(p))
       => tool_calls = <<>>

(***************************************************************************)
(* C9.  The disambiguator rules a window an invocation exactly when it     *)
(* holds strictly more call cues than discussion cues; equal counts, both  *)
(* zero included, are ruled discussion.  Checked on the texts of at most   *)
(* 100 characters, whose window is the whole text, where only the inline   *)
(* strategy can match: all well-formed fragments are returned when the     *)
(* call cues outnumber the discussion cues, and none otherwise.            *)
(***************************************************************************)
CallCuesInText == Cardinality({w \in {"using", "run", "execute"} : CueInText(w)})
DiscussionCuesInText == Cardinality({w \in {"could"} : CueInText(w)})

C9_StrictlyMoreCallCues ==
    (/\ pc = "inline_done"
     /\ ~Has("START")
     /\ ~Has("FENCE")
     /\ CharLen(text) <= 100)
    => tool_calls = IF CallCuesInText > DiscussionCuesInText
                    THEN InlineCallsInOrder(1)
                    ELSE <<>>

\* A tie at one cue each, and a fragment that would otherwise be returned.
C9_Witness ==
    /\ pc = "inline_done"
    /\ ~Has("START")
    /\ ~Has("FENCE")
    /\ CharLen(text) <= 100
    /\ CallCuesInText = 1
    /\ DiscussionCuesInText = 1
    /\ InlineCallsInOrder(1) # <<>>
    /\ tool_calls = <<>>

\* Two call cues against one discussion cue.
C9_MajorityWitness ==
    /\ pc = "inline_done"
    /\ CharLen(text) <= 100
    /\ CallCuesInText = 2
    /\ DiscussionCuesInText = 1
    /\ tool_calls = <<CallOf("P_RUN", 6)>>

(***************************************************************************)
(* C10.  When the inline strategy runs, it returns exactly the well-formed *)
(* fragments for which the window of 100 characters before and 100 after   *)
(* the start of the match, clipped to the text, holds strictly more call   *)
(* cues than discussion cues; the others are left out without an error,    *)
(* and cue words outside the window do not count.                          *)
(***************************************************************************)
C10_WindowDecides ==
    (/\ pc \in {"inline_done", "returned"}
     /\ ExtractWithMarkers(text).calls = <<>>
     /\ ExtractFromCodeBlocks(text).calls = <<>>)
    => tool_calls = AcceptedInOrder(1)

\* A call cue more than 100 characters before the fragment: left out.
C10_Witness ==
    /\ pc = "inline_done"
    /\ text = <<"USING", "SP", "PAD", "P_A">>
    /\ tool_calls = <<>>

\* A discussion cue more than 100 characters after the start of the
\* fragment, a call cue next to it: returned.
C10_FarDiscussionWitness ==
    /\ pc = "inline_done"
    /\ text = <<"P_RUN", "PAD", "COULD", "SP">>
    /\ tool_calls = <<CallOf("P_RUN", 6)>>

(***************************************************************************)
(* C11.  extract_tool_calls is a pure function of its text.  Two calls on  *)
(* the same text, on the same parser or on two, with the statements of     *)
(* each other and of a third call interleaved in any order, end alike:     *)
(* both return, and equal sequences of invocations, or both raise.  No     *)
(* call writes what another reads: the calls in progress work on distinct  *)
(* list objects, and the list a caller received stays as it was returned.  *)
(***************************************************************************)
CallEnded(c) == frames[c].pc \in {"returned", "raised"}

CallEntered(c) == frames[c].pc # "called"

C11_PureFunction ==
    /\ \A c \in CallIds : \A d \in CallIds :
           (CallEnded(c) /\ CallEnded(d) /\ frames[c].text = frames[d].text) =>
               /\ frames[c].pc = frames[d].pc
               /\ frames[c].result = frames[d].result
    /\ \A c \in CallIds : \A d \in CallIds \ {c} :
           (CallEntered(c) /\ CallEntered(d)) =>
               frames[c].tool_calls # frames[d].tool_calls
    /\ \A c \in CallIds : frames[c].pc = "returned" => ListOf(c) = frames[c].result

\* The three calls made on one parser: the two on a marker-delimited
\* payload, the third on a fenced one.
C11_Witness ==
    /\ frames["first"].self = frames["second"].self
    /\ frames["other"].self = frames["first"].self
    /\ frames["first"].pc = "returned"
    /\ frames["other"].pc = "returned"
    /\ frames["second"].pc = "returned"
    /\ frames["first"].text = MarkerBlock("P_A")
    /\ frames["other"].text = TaggedBlock("P_B")
    /\ frames["first"].result = <<CallOf("P_A", 10)>>
    /\ frames["second"].result = <<CallOf("P_A", 10)>>
    /\ frames["other"].result = <<CallOf("P_B", 8)>>

(***************************************************************************)
(* Vocabulary of the properties of the scripts.                            *)
(***************************************************************************)
Runs == Len(history)

\* The script that ended last, and the one before it.
LastRun == IF Runs >= 1 THEN history[Runs] ELSE "none"
RunBeforeLast == IF Runs >= 2 THEN history[Runs - 1] ELSE "none"

\* The lines patch.py adds.
VeniceLines ==
    {"E_VENICE", "C_LITERAL_V", "S_VENICE", "S_VENICE_KEY", "S_VENICE_URL", "I_VENICE",
     "L_IMPORT_VENICE", "L_ELIF_VENICE", "L_RETURN_VENICE", "M_IMPORT_VENICE",
     "M_MAP_VENICE", "T_VENICE"}

\* How many lines of the file at path p are the line l.
Times(l, p) == Cardinality({i \in 1..Len(fs[p].content) : fs[p].content[i] = l})

(***************************************************************************)
(* C12.  After one or more runs of patch.py followed by one run of         *)
(* unpatch.py the installation is as it was: each of the seven patched     *)
(* files has the content it had before the first run of patch.py (and is   *)
(* missing if it was), no backup remains, and schemas/providers/venice.py  *)
(* and llm_api/venice_client.py are absent.                                *)
(***************************************************************************)
C12_UnpatchRestores ==
    (script = "idle" /\ LastRun = "unpatch" /\ RunBeforeLast = "patch") =>
        /\ \A f \in PatchedFiles : fs[Path(f)] = original[Path(f)]
        /\ \A f \in PatchedFiles : ~Exists(fs, BackupPath(f))
        /\ \A f \in VeniceFiles : ~Exists(fs, Path(f))

\* Two runs of patch.py on the files as shipped, then unpatch.py.
C12_Witness ==
    /\ script = "idle"
    /\ history = <<"patch", "patch", "unpatch">>
    /\ \A f \in PatchedFiles : original[Path(f)] = File(Stock(f))
    /\ \A f \in PatchedFiles : fs[Path(f)] = File(Stock(f))
    /\ \A p \in Paths : p.suffix = ".backup" => ~Exists(fs, p)
    /\ \A f \in VeniceFiles : ~Exists(fs, Path(f))

\* The files as shipped, patched: every file edited, every backup written.
C12_PatchedWitness ==
    /\ script = "idle"
    /\ history = <<"patch", "patch">>
    /\ \A f \in PatchedFiles :
           /\ fs[Path(f)] # original[Path(f)]
           /\ fs[BackupPath(f)] = File(Stock(f))
    /\ fs[Path(dst_provider)] = File(<<"V_PROVIDER">>)
    /\ fs[Path(dst_client)] = File(<<"V_CLIENT">>)

(***************************************************************************)
(* C18.  patch.py is idempotent.  A run of patch.py that follows a run of  *)
(* patch.py changes no file and no backup of the installation, at any of   *)
(* its calls; each backup holds the content the file had before the first  *)
(* run; and no line that patch.py adds is in a patched file twice.         *)
(***************************************************************************)
C18_SecondRunChangesNothing ==
    /\ (script = "patch" /\ LastRun = "patch") => fs = at_start
    /\ (script = "idle" /\ LastRun = "patch" /\ RunBeforeLast = "patch") => fs = at_start
    /\ LastRun = "patch" =>
           \A f \in PatchedFiles :
               /\ Exists(fs, BackupPath(f)) => fs[BackupPath(f)] = original[Path(f)]
               /\ \A l \in VeniceLines : Times(l, Path(f)) <= 1

\* The second run has ended.  The streaming service file has no line with
\* _is_model_compatible, so that the second run takes it as not patched and
\* makes its replacement again.
C18_Witness ==
    /\ script = "idle"
    /\ history = <<"patch", "patch">>
    /\ original[Path(streaming_path)] = File(Other(streaming_path))
    /\ original[Path(init_path)] = File(Stock(init_path))
    /\ fs[Path(streaming_path)] = File(<<"T_OAUTH", "T_VENICE", "T_CLOSE">>)
    /\ fs[BackupPath(streaming_path)] = File(Other(streaming_path))
    /\ fs[Path(init_path)] = File(<<"I_GROQ", "BLANK", "I_VENICE">>)
    /\ fs[BackupPath(init_path)] = File(Stock(init_path))

(***************************************************************************)
(* C13.  The marker strategy recognises a region only when the start token *)
(* and the end token each stand alone on a line: a start token preceded by *)
(* other characters on its line, or an end token followed by other         *)
(* characters on its line, yields no candidate.  So a text in which no     *)
(* start token begins a line, or no end token ends one, yields nothing     *)
(* from the marker strategy.  The pattern anchors neither token, and such  *)
(* regions are recognised.                                                 *)
(***************************************************************************)
\* Nothing but the newline of the line before precedes lexeme i on its line.
BeginsLine(i) == i = 1 \/ text[i - 1] = "NL"

\* Nothing but a newline follows lexeme i on its line.
EndsLine(i) == i = Len(text) \/ text[i + 1] = "NL"

C13_MarkersAloneOnLine ==
    pc = "markers_done" =>
        /\ (\A i \in 1..Len(text) : text[i] = "START" => ~BeginsLine(i)) => tool_calls = <<>>
        /\ (\A i \in 1..Len(text) : text[i] = "END" => ~EndsLine(i)) => tool_calls = <<>>

(***************************************************************************)
(* C14.  A start token with no end token of its own yields no candidate    *)
(* for that occurrence only: every marker-delimited region with a          *)
(* well-formed payload elsewhere in the text, also one that begins after   *)
(* the unterminated start token, still yields its invocation.  The pattern *)
(* runs from the unterminated start token to the end token of the next     *)
(* region, and that region is lost with it.                                *)
(***************************************************************************)
\* The start token at lexeme i opens no region.
Unterminated(i) ==
    /\ text[i] = "START"
    /\ \A p \in PayloadLexemes : ~MarkerBlockAt(i, p)

C14_UnterminatedStartAlone ==
    (/\ pc = "markers_done"
     /\ \E i \in 1..Len(text) : Unterminated(i))
    => \A j \in 1..Len(text) : \A q \in WellFormedPayloads :
           MarkerBlockAt(j, q) => CallOf(q, 10) \in Range(tool_calls)

(***************************************************************************)
(* C15.  Extra keys of a marker-delimited or fenced payload are ignored:   *)
(* the payload {"function": "alpha", "params": {"k": 1}, "id": 7} yields   *)
(* the invocation of {"function": "alpha", "params": {"k": 1}}, that is    *)
(* name alpha, parameters {"k": 1} and the confidence of the strategy.  A  *)
(* text whose regions hold the one payload or the other yields one such    *)
(* invocation for each region, whichever of the two each region holds.     *)
(***************************************************************************)
\* The invocation alpha({"k": 1}) at confidence c (in tenths).
AlphaCall(c) == ToolCall(JStr("alpha"), JObj([k |-> JNum(1)]), c)

\* The number of start tokens of the text, and of its fenced regions that
\* hold one of the two payloads.
StartCount == Cardinality({i \in 1..Len(text) : text[i] = "START"})
FencedCount ==
    Cardinality({i \in 1..Len(text) : \E p \in {"P_A", "P_EXTRA"} : FencedBlockAt(i, p)})

C15_ExtraKeysIgnored ==
    /\ (Finished /\ Has("START") /\ EveryRegionIn({"P_A", "P_EXTRA"})) =>
           /\ pc = "returned"
           /\ tool_calls = [n \in 1..StartCount |-> AlphaCall(10)]
    /\ (Finished /\ ~Has("START") /\ Has("FENCE") /\ EveryFenceIn({"P_A", "P_EXTRA"})) =>
           /\ pc = "returned"
           /\ tool_calls = [n \in 1..FencedCount |-> AlphaCall(8)]

C15_Witness ==
    /\ pc = "returned"
    /\ \E i \in 1..Len(text) : MarkerBlockAt(i, "P_EXTRA")
    /\ \E i \in 1..Len(text) : MarkerBlockAt(i, "P_A")
    /\ EveryRegionIn({"P_A", "P_EXTRA"})
    /\ tool_calls = <<AlphaCall(10), AlphaCall(10)>>

C15_FencedWitness ==
    /\ pc = "returned"
    /\ ~Has("START")
    /\ \E i \in 1..Len(text) : FencedBlockAt(i, "P_EXTRA")
    /\ \E i \in 1..Len(text) : FencedBlockAt(i, "P_A")
    /\ EveryFenceIn({"P_A", "P_EXTRA"})
    /\ tool_calls = <<AlphaCall(8), AlphaCall(8)>>

(***************************************************************************)
(* C17.  In the disambiguator a cue word adds at most 1 to its score       *)
(* however often it occurs in the window, and it is matched as a           *)
(* case-insensitive substring, so inside a longer word and inside the      *)
(* fragment's own text.  Both scores lie in 0..5.  When every fragment's   *)
(* window holds one call cue word several times and a discussion cue, the  *)
(* inline strategy returns nothing; when every fragment's window holds the *)
(* word EXECUTED and no discussion cue, or when the only cue of the text   *)
(* is the name run inside the fragments themselves, every well-formed      *)
(* fragment is returned.                                                   *)
(***************************************************************************)
\* The lexemes within the window of the fragment at lexeme i that hold a
\* cue word of W, one for each occurrence.
OccurrencesInWindow(i, W) ==
    LET o == Offset(text, i)
        lo == IF o < 100 THEN 0 ELSE o - 100
        hi == IF o + 100 > CharLen(text) THEN CharLen(text) ELSE o + 100
    IN {c \in 1..Len(text) :
           /\ \E w \in W : Holds(text[c], w)
           /\ lo <= CueFrom(c)
           /\ CueUpto(c) <= hi}

\* The window of the fragment at lexeme i holds one call cue word, at least
\* twice, and a discussion cue.
RepeatedCallCue(i) ==
    /\ \E w \in {"using", "run", "execute"} :
           /\ Cardinality(OccurrencesInWindow(i, {w})) >= 2
           /\ OccurrencesInWindow(i, {"using", "run", "execute"} \ {w}) = {}
    /\ OccurrencesInWindow(i, {"could"}) # {}

OnlyInline ==
    /\ pc = "inline_done"
    /\ ~Has("START")
    /\ ~Has("FENCE")

C17_CueCountedOnce ==
    OnlyInline =>
        /\ \A i \in 1..Len(text) :
               text[i] \in InlineLexemes =>
                   /\ call_score(text, Offset(text, i)) \in 0..5
                   /\ discussion_score(text, Offset(text, i)) \in 0..5
                   /\ call_score(text, Offset(text, i)) <= Cardinality(OccurrencesInWindow(i, {"using", "run", "execute"}))
        /\ (\A i \in 1..Len(text) : text[i] \in InlineLexemes => RepeatedCallCue(i))
               => tool_calls = <<>>
        /\ (\A i \in 1..Len(text) :
                text[i] \in InlineLexemes =>
                    /\ OccurrencesInWindow(i, {"execute"}) # {}
                    /\ OccurrencesInWindow(i, {"could"}) = {})
               => tool_calls = InlineCallsInOrder(1)
        /\ (/\ ~Has("USING") /\ ~Has("EXECUTED") /\ ~Has("COULD")
            /\ \A i \in 1..Len(text) : text[i] \in InlineLexemes => text[i] = "P_RUN")
               => tool_calls = InlineCallsInOrder(1)

\* The name run twice in the window and one discussion cue: nothing returned.
C17_Witness ==
    /\ OnlyInline
    /\ text = <<"P_RUN", "P_RUN", "COULD", "SP">>
    /\ \A i \in {1, 2} : RepeatedCallCue(i)
    /\ tool_calls = <<>>

\* EXECUTED before a fragment: returned.
C17_SubstringWitness ==
    /\ OnlyInline
    /\ text = <<"EXECUTED", "SP", "P_A">>
    /\ tool_calls = <<CallOf("P_A", 6)>>

\* The fragment's own name is the only cue: returned.
C17_OwnTextWitness ==
    /\ OnlyInline
    /\ text = <<"P_RUN">>
    /\ tool_calls = <<CallOf("P_RUN", 6)>>

(***************************************************************************)
(* C16.  _filter_tools_if_unsupported, as request and request_async call   *)
(* it.  When the cache holds a false (or null) entry for the model of the  *)
(* request, the dict returned has no tools key and no tool_choice key and  *)
(* no message of role tool: each such message is replaced, at its place in *)
(* the list, by a user message whose content gives its tool_call_id and    *)
(* its content; every other message is kept at its place, and every other *)
(* key is kept with its value, in the order of the request.  When the      *)
(* cache holds a true entry for the model or none, the dict returned is    *)
(* the request.                                                            *)
(***************************************************************************)
Sent == endpoint \in {"responses", "chat.completions"}

\* The cache has an entry for the model of the request, one of values.
Recorded(values) ==
    /\ ModelOf(none_filtered) \in DOMAIN model_capabilities_cache
    /\ model_capabilities_cache[ModelOf(none_filtered)] \in values

Unrecorded == ModelOf(none_filtered) \notin DOMAIN model_capabilities_cache

\* The messages of a request, none when it has no messages key.
MessagesOf(d) == IF HasKey(d, "messages") THEN DictGet(d, "messages", JNone).items ELSE <<>>

\* The role of a message, "" when it has none.
RoleOf(msg) ==
    IF msg.type = "object" /\ "role" \in DOMAIN msg.members THEN msg.members.role.chars ELSE ""

\* The text of a field of a message as it is written into a string.
Carried(msg, key) ==
    IF key \notin DOMAIN msg.members THEN ""
    ELSE IF msg.members[key] = JNone THEN "None"
    ELSE msg.members[key].chars

\* The items of dict d whose key is in K, in order.
ItemsIn(d, K) ==
    LET Test(item) == item[1] \in K
    IN SelectSeq(d, Test)

C16_ToolsFiltered ==
    Sent =>
        /\ (Recorded({"True"}) \/ Unrecorded) => filtered_data = none_filtered
        /\ Recorded({"False", "None"}) =>
               /\ ~HasKey(filtered_data, "tools")
               /\ ~HasKey(filtered_data, "tool_choice")
               /\ Len(MessagesOf(filtered_data)) = Len(MessagesOf(none_filtered))
               /\ \A i \in 1..Len(MessagesOf(none_filtered)) :
                      LET old == MessagesOf(none_filtered)[i]
                          new == MessagesOf(filtered_data)[i]
                      IN /\ RoleOf(new) # "tool"
                         /\ IF RoleOf(old) = "tool"
                            THEN /\ RoleOf(new) = "user"
                                 /\ new.members.content.chars =
                                        "Tool result (ID: " \o Carried(old, "tool_call_id")
                                            \o "):\n" \o Carried(old, "content")
                            ELSE new = old
               /\ ItemsIn(filtered_data, {"model", "input"}) =
                      ItemsIn(none_filtered, {"model", "input"})
               /\ Keys(ItemsIn(filtered_data, Range(Keys(none_filtered)))) =
                      Keys(ItemsIn(none_filtered, {"model", "input", "messages"}))

\* Tools, a tool choice and a tool message, for a model recorded as not
\* supporting tools.
C16_Witness ==
    /\ Sent
    /\ Recorded({"False"})
    /\ Keys(none_filtered) = <<"tools", "input", "tool_choice", "messages", "model">>
    /\ MessagesOf(none_filtered) = <<M_USER, M_TOOL>>
    /\ Keys(filtered_data) = <<"input", "messages", "model">>
    /\ MessagesOf(filtered_data) =
           <<M_USER, JObj([role |-> JStr("user"),
                           content |-> JStr("Tool result (ID: call_1):\n4")])>>

\* The same request for a model the cache has no entry for.
C16_UnrecordedWitness ==
    /\ Sent
    /\ Unrecorded
    /\ ModelOf(none_filtered) = "m1"
    /\ Keys(none_filtered) = <<"tools", "input", "tool_choice", "messages", "model">>
    /\ MessagesOf(none_filtered) = <<M_USER, M_TOOL>>
    /\ filtered_data = none_filtered

\* A request without a messages key, for a model recorded as not supporting
\* tools: the keys are kept, and an empty list of messages comes last.
C16_NoMessagesWitness ==
    /\ Sent
    /\ Recorded({"False"})
    /\ Keys(none_filtered) = <<"model", "tools", "input">>
    /\ filtered_data = <<none_filtered[1], none_filtered[3], <<"messages", JList(<<>>)>> >>
    /\ endpoint = "chat.completions"

====
